---- MODULE Spec2Model ----
(***************************************************************************)
(* Model of ext/mongo_kerberos/mongo_kerberos_native.c: the GSSAPI         *)
(* authenticator of the Ruby driver's Kerberos extension.  One             *)
(* Authenticator object (self) is driven by its caller through             *)
(* initialize_challenge and evaluate_challenge; the SASL library (the      *)
(* negotiation engine and its base64 codec) answers every call the code    *)
(* makes, and the Ruby garbage collector frees the wrapper objects that    *)
(* own the SASL connections.                                               *)
(***************************************************************************)
EXTENDS Integers, Sequences, FiniteSets, TLC

(***************************************************************************)
(* Bounds of the model.                                                    *)
(***************************************************************************)
\* Number of initialize_challenge / evaluate_challenge calls in one run.
MaxCalls == 3

(***************************************************************************)
(* Program constants.                                                      *)
(***************************************************************************)
\* Result codes of <sasl/sasl.h>.
SASL_CONTINUE == 1
SASL_INTERACT == 2
SASL_OK == 0
SASL_FAIL == -1
SASL_NOMEM == -2
SASL_BUFOVER == -3
SASL_NOMECH == -4
SASL_BADPROT == -5
\* Callback identifiers of <sasl/sasl.h>.
SASL_CB_LIST_END == 0
SASL_CB_USER == 16385
SASL_CB_AUTHNAME == 16386
\* sizeof(encoded_payload), sizeof(base_payload), sizeof(payload).
BufferSize == 4096
\* The longest token whose base64 text sasl_encode64 accepts for BufferSize - 1.
LongestFit == ((BufferSize - 4) \div 4) * 3
\* The value rb_iv_get returns for an instance variable that was never set.
Qnil == 0

\* A mechanism_selected pointer that is NULL.
NullMech == "<NULL>"
\* const char *mechanism_list = "GSSAPI"
mechanism_list == "GSSAPI"

(***************************************************************************)
(* Byte strings and base64 text.  A Token is a sequence of bytes 0..255,   *)
(* an EncodedToken a sequence of one-character strings.                    *)
(***************************************************************************)
Base64Alphabet ==
  << "A","B","C","D","E","F","G","H","I","J","K","L","M","N","O","P",
     "Q","R","S","T","U","V","W","X","Y","Z","a","b","c","d","e","f",
     "g","h","i","j","k","l","m","n","o","p","q","r","s","t","u","v",
     "w","x","y","z","0","1","2","3","4","5","6","7","8","9","+","/" >>

\* CHAR64(c) of saslutil.c: the 6-bit value of c, -1 for any other character.
CHAR64(c) ==
  IF \E i \in 1..64 : Base64Alphabet[i] = c
  THEN (CHOOSE i \in 1..64 : Base64Alphabet[i] = c) - 1
  ELSE -1

\* A token of n bytes, the i-th being (seed + i) mod 256.
Fill(n, seed) == [i \in 1..n |-> (seed + i) % 256]

\* The base64 text of bytes, as sasl_encode64 writes it.
Base64Text(bytes) ==
  LET n == Len(bytes)
      olen == ((n + 2) \div 3) * 4
      byte(k) == IF k <= n THEN bytes[k] ELSE 0
      sextet(i) ==
        LET g == (i - 1) \div 4
            pos == (i - 1) % 4
            b0 == byte(3 * g + 1)
            b1 == byte(3 * g + 2)
            b2 == byte(3 * g + 3)
        IN CASE pos = 0 -> b0 \div 4
             [] pos = 1 -> (b0 % 4) * 16 + (b1 \div 16)
             [] pos = 2 -> IF 3 * g + 2 > n THEN 64 ELSE (b1 % 16) * 4 + (b2 \div 64)
             [] pos = 3 -> IF 3 * g + 3 > n THEN 64 ELSE b2 % 64
  IN [i \in 1..olen |-> IF sextet(i) = 64 THEN "=" ELSE Base64Alphabet[sextet(i) + 1]]

\* sasl_encode64(in, inlen, out, outmax, &outlen) of the SASL library: the
\* length needed is stored in outlen before the capacity test, and the text
\* is written only when outmax exceeds it (outmax counts the terminator).
sasl_encode64(bytes, outmax) ==
  LET olen == ((Len(bytes) + 2) \div 3) * 4
  IN IF outmax <= olen
     THEN [result |-> SASL_BUFOVER, outlen |-> olen, out |-> <<>>]
     ELSE [result |-> SASL_OK, outlen |-> olen, out |-> Base64Text(bytes)]

\* sasl_decode64(in, inlen, out, outmax, &outlen) of the SASL library.  The
\* text is read four characters at a time while more than three remain; a
\* quartet after one holding '=', or one with a character outside the
\* alphabet, is SASL_BADPROT; a written length reaching outmax is
\* SASL_BUFOVER; characters left over after the last quartet give
\* SASL_CONTINUE (SASL_BADPROT after an '=').  outlen is stored only when the
\* loop ends.
sasl_decode64(text, outmax) ==
  LET n == Len(text)
      groups == n \div 4
      rest == n % 4
      ch(g, k) == text[4 * (g - 1) + k]
      hasEq(g) == ch(g, 3) = "=" \/ ch(g, 4) = "="
      malformed(g) ==
        \/ CHAR64(ch(g, 1)) = -1
        \/ CHAR64(ch(g, 2)) = -1
        \/ (ch(g, 3) # "=" /\ CHAR64(ch(g, 3)) = -1)
        \/ (ch(g, 4) # "=" /\ CHAR64(ch(g, 4)) = -1)
        \/ (ch(g, 3) = "=" /\ ch(g, 4) # "=")
      produced(g) == IF ch(g, 3) = "=" THEN 1 ELSE IF ch(g, 4) = "=" THEN 2 ELSE 3
      \* every quartet before a reached one is free of '=' and yields 3 bytes
      lenAfter(g) == 3 * (g - 1) + produced(g)
      withEq == {g \in 1..groups : hasEq(g)}
      afterEq(g) == \E h \in withEq : h < g
      fails(g) == afterEq(g) \/ malformed(g) \/ lenAfter(g) >= outmax
      failing == {g \in 1..groups : fails(g)}
      first == CHOOSE g \in failing : \A h \in failing : g <= h
      len == IF groups = 0 THEN 0 ELSE lenAfter(groups)
      sx(i) == CHAR64(text[i])
      byteAt(i) ==
        LET g == (i - 1) \div 3
            pos == (i - 1) % 3
        IN CASE pos = 0 -> (sx(4 * g + 1) * 4 + (sx(4 * g + 2) \div 16)) % 256
             [] pos = 1 -> ((sx(4 * g + 2) % 16) * 16 + (sx(4 * g + 3) \div 4)) % 256
             [] pos = 2 -> ((sx(4 * g + 3) % 4) * 64 + sx(4 * g + 4)) % 256
      fail(code) == [result |-> code, outlen |-> 0, out |-> <<>>]
  IN IF n > 0 /\ text[1] = "\r" THEN fail(SASL_FAIL)
     ELSE IF failing # {}
     THEN IF afterEq(first) \/ malformed(first)
          THEN fail(SASL_BADPROT) ELSE fail(SASL_BUFOVER)
     ELSE LET decoded == [result |-> SASL_OK, outlen |-> len,
                          out |-> [i \in 1..len |-> byteAt(i)]]
          IN IF rest = 0 THEN decoded
             ELSE IF groups > 0 /\ hasEq(groups) THEN fail(SASL_BADPROT)
             ELSE [decoded EXCEPT !.result = SASL_CONTINUE]

(***************************************************************************)
(* Errors.  An operation ends by returning text, by raising, or (undefined *)
(* behaviour) with the process gone.                                       *)
(***************************************************************************)
\* sasl_errstring(result, NULL, NULL): the library's diagnostic for a code.
sasl_errstring(result) ==
  CASE result = SASL_CONTINUE -> "another step is needed in authentication"
    [] result = SASL_OK -> "successful result"
    [] result = SASL_FAIL -> "generic failure"
    [] result = SASL_NOMEM -> "no memory available"
    [] result = SASL_BUFOVER -> "overflowed buffer"
    [] result = SASL_NOMECH -> "no mechanism available"
    [] result = SASL_BADPROT -> "bad protocol / cancel"
    [] OTHER -> "undefined error!"

NoOutcome ==
  [kind |-> "none", cls |-> "", msg |-> "", code |-> <<>>, errstring |-> "",
   mech |-> "", written |-> <<>>, text |-> <<>>]

\* rb_str_new(buffer, len)
rb_str_new(text) == [NoOutcome EXCEPT !.kind = "return", !.text = text]

\* rb_raise(gssapi_error_cls(), "%s (code %d: %s)", msg, result, sasl_errstring(result, NULL, NULL))
raise_gssapi_error(msg, result) ==
  [NoOutcome EXCEPT !.kind = "raise", !.cls = "Mongo::GssapiNative::Error",
                    !.msg = msg, !.code = <<result>>,
                    !.errstring = sasl_errstring(result)]

\* rb_raise(gssapi_error_cls(), "sasl_client_start selected an unexpected mechanism: %s", mechanism_selected)
raise_unexpected_mechanism(mech) ==
  [NoOutcome EXCEPT !.kind = "raise", !.cls = "Mongo::GssapiNative::Error",
                    !.msg = "sasl_client_start selected an unexpected mechanism",
                    !.mech = mech]

\* rb_raise(gssapi_error_cls(), "sasl_encode64 claimed to write %u bytes when up to %lu bytes were allowed", ...)
raise_claimed_to_write(len) ==
  [NoOutcome EXCEPT !.kind = "raise", !.cls = "Mongo::GssapiNative::Error",
                    !.msg = "sasl_encode64 claimed to write",
                    !.written = <<len, BufferSize>>]

\* Data_Get_Struct on a value that is no T_DATA object: Check_Type raises.
raise_type_error ==
  [NoOutcome EXCEPT !.kind = "raise", !.cls = "TypeError",
                    !.msg = "wrong argument type nil (expected Data)"]

\* The process ended inside the call (segmentation fault).
Crash == [NoOutcome EXCEPT !.kind = "crash"]

\* The error kinds of the design, read off what the code raises.  All but
\* the last are one Ruby class, Mongo::GssapiNative::Error, told apart by the
\* stage that raised: context creation, start, step and decode failures carry
\* the library's code and diagnostic; the encode stage raises for a text that
\* does not fit, by the codec's code or by the written length it claimed.
NegotiationError(o) ==
  /\ o.kind = "raise"
  /\ o.msg \in { "sasl_client_new failed", "sasl_client_start failed",
                 "sasl_client_start did not return SASL_CONTINUE",
                 "sasl_decode64 failed to decode the payload",
                 "sasl_client_step failed" }
MechanismMismatchError(o) ==
  o.kind = "raise" /\ o.msg = "sasl_client_start selected an unexpected mechanism"
EncodingOverflowError(o) ==
  /\ o.kind = "raise"
  /\ o.msg \in { "sasl_encode64 failed to encode the payload",
                 "sasl_encode64 claimed to write" }
ProtocolStateError(o) ==
  o.kind = "raise" /\ o.cls = "TypeError"

\* A test that takes only the generic failure for a failure.
is_generic_failure(result) == result = SASL_FAIL

\* A test that never fires.
is_sasl_failure_never(result) == FALSE

\* A test that takes SASL_OK for a failure too.
is_sasl_failure_or_ok(result) == result <= 0

\* int is_sasl_failure(int result)
is_sasl_failure(result) == result < 0

(***************************************************************************)
(* State.                                                                  *)
(***************************************************************************)
VARIABLES
  self,        \* the Authenticator's instance variables
  wrappers,    \* the T_DATA objects made by Data_Wrap_Struct, in order
  conns,       \* the sasl_conn_t the library has created, in order
  disposals,   \* for each connection, the sasl_dispose calls made on it
  alive,       \* the caller still holds the Authenticator
  calls,       \* initialize_challenge / evaluate_challenge calls so far
  raised,      \* some call on the Authenticator has raised
  last         \* the last call: its argument, the library calls, the outcome

vars == <<self, wrappers, conns, disposals, alive, calls, raised, last>>

\* One call of the library made by an operation, with what it was given and
\* what it answered.
LibCall(fn, conn, result, mech, given, outmax, outlen, out) ==
  [fn |-> fn, conn |-> conn, result |-> result, mech |-> mech, given |-> given,
   outmax |-> outmax, outlen |-> outlen, out |-> out]

\* The calls of fn among the library calls trace of an operation.
TraceCalls(trace, fn) == SelectSeq(trace, LAMBDA c : c.fn = fn)

\* The calls of fn among the library calls of the last operation.
CallsOf(fn) == TraceCalls(last.trace, fn)

Crashed == last.outcome.kind = "crash"

UserNames == {"alice", "", "bob@EXAMPLE.COM"}

\* a_init(self, user_name, host_name, service_name, canonicalize_host_name)
a_init(user_name, host_name, service_name, canonicalize_host_name) ==
  [valid |-> TRUE, user_name |-> user_name, host_name |-> host_name,
   service_name |-> service_name,
   canonicalize_host_name |-> canonicalize_host_name, context |-> Qnil]

\* The state after Authenticator.new(user_name, "db.example.com", "mongodb", false).
Constructed(user_name) ==
  /\ self = a_init(user_name, "db.example.com", "mongodb", FALSE)
  /\ wrappers = <<>>
  /\ conns = <<>>
  /\ disposals = <<>>
  /\ alive = TRUE
  /\ calls = 0
  /\ raised = FALSE
  /\ last = [op |-> "none", payload |-> <<>>, trace |-> <<>>, outcome |-> NoOutcome]

Init == Constructed("alice")

\* The same, for each of the user names.
InitResolver == \E u \in UserNames : Constructed(u)

(***************************************************************************)
(* What the library may answer, and what the caller may pass.              *)
(***************************************************************************)
\* Results of sasl_client_new.
ClientNewResults == {SASL_OK, SASL_NOMEM, SASL_FAIL}
\* Results of sasl_client_start.
ClientStartResults == {SASL_CONTINUE, SASL_OK, SASL_INTERACT, SASL_NOMECH}
\* Mechanism names sasl_client_start may store in mechanism_selected.
Mechanisms == <<"GSSAPI", "PLAIN", "", NullMech>>
\* Results of sasl_client_step.
ClientStepResults == {SASL_CONTINUE, SASL_OK, SASL_FAIL}
\* First tokens of the mechanism: a short one, the longest whose base64 text
\* fits the buffer, and the shortest whose text does not.
StartTokens == {<<1, 2>>, Fill(LongestFit, 0), Fill(LongestFit + 1, 0)}
\* Later tokens of the mechanism.
StepTokens == {<<3, 4>>, <<>>, Fill(LongestFit + 1, 7)}
\* A limit larger than the buffer.
PastBufferLimit == BufferSize + 1

\* sizeof(encoded_payload)-1, sizeof(payload)-1: the outmax given to sasl_encode64
EncodeLimit == BufferSize - 1

\* A limit for a decode buffer no larger than the longest token that is encoded.
ShortDecodeLimit == LongestFit

\* sizeof(base_payload)-1: the outmax given to sasl_decode64
DecodeLimit == BufferSize - 1

\* The text initialize_challenge returns for the longest first token that fits.
LongestText == Base64Text(Fill(LongestFit, 0))
\* The base64 text of BufferSize bytes: its decoded form, with the
\* terminator, does not fit base_payload.
OverlongText == Base64Text(Fill(BufferSize, 0))

\* Texts the caller passes to evaluate_challenge: "AQI=", "AwQ=", a text cut
\* short, one outside the alphabet, the longest text initialize_challenge
\* returns, and one whose decoded form does not fit the buffer.
InboundTexts ==
  { <<"A", "Q", "I", "=">>, <<"A", "w", "Q", "=">>, <<"A", "Q", "I">>,
    <<"!", "!", "!", "!">>, LongestText, OverlongText }

\* The codec's answer to each token the mechanism may produce.
Encoded == [t \in StartTokens \cup StepTokens |-> sasl_encode64(t, EncodeLimit)]

\* The codec's answer to each text the caller may pass.
Decoded == [t \in InboundTexts |-> sasl_decode64(t, DecodeLimit)]

\* What a codec that cannot be trusted may answer to an encode call: what
\* sasl_encode64 answers, or success with a written length of the whole
\* buffer or more.
UntrustedEncode64(bytes) ==
  { Encoded[bytes],
    [result |-> SASL_OK, outlen |-> BufferSize, out |-> <<>>],
    [result |-> SASL_OK, outlen |-> BufferSize + 1, out |-> <<>>] }

\* The answers of the codec to one encode call.
EncodeAnswers(untrusted, bytes) ==
  IF untrusted THEN UntrustedEncode64(bytes) ELSE {Encoded[bytes]}

(***************************************************************************)
(* The pieces of the two operations.                                       *)
(***************************************************************************)
\* A test that takes only the generic failure for a failure.
ClientNewFailedOnlyGeneric(result) == result = SASL_FAIL

\* if (result != SASL_OK) after sasl_client_new
ClientNewFailed(result) == result # SASL_OK

\* Data_Wrap_Struct(rb_cObject, NULL, mongo_sasl_conn_free, conn)
Data_Wrap_Struct(conn) == [data |-> conn, freed |-> FALSE]

\* rb_iv_set(self, "@context", context)
rb_iv_set_context(obj, context) == [obj EXCEPT !.context = context]

\* A raise path that disposes the connection the wrapper already owns.
DisposeOnRaiseAgain(count, conn) == [count EXCEPT ![conn] = @ + 1]

\* "from now on context owns conn ... we should NOT call sasl_dispose any
\* more in this function": what a raise after the wrap adds to the disposals.
DisposeOnRaise(count, conn) == count

\* A comparison over the selected name's length only (strncmp), which takes
\* the empty name for a match.
StrncmpOutcomes(mech) ==
  IF mech = NullMech THEN {"crash", "differs", "equal"}
  ELSE IF mech \in {"GSSAPI", ""} THEN {"equal"} ELSE {"differs"}

\* strcmp(mechanism_selected, "GSSAPI") != 0.  On a NULL pointer the call is
\* undefined: the process ends, or the comparison goes either way.
StrcmpOutcomes(mech) ==
  IF mech = NullMech THEN {"crash", "differs", "equal"}
  ELSE IF mech = "GSSAPI" THEN {"equal"} ELSE {"differs"}

\* A test that lets every non-negative result of sasl_client_start pass.
NotContinueOnlyFailures(result) == result < 0

\* if (result != SASL_CONTINUE) after sasl_client_start
NotContinue(result) == result # SASL_CONTINUE

\* if (encoded_payload_len >= sizeof(encoded_payload)) in initialize_challenge
ClaimedTooMuch(len) == len >= BufferSize

\* evaluate_challenge has no such test before rb_str_new(payload, payload_len)
StepClaimedTooMuch(len) == FALSE

\* rb_str_new(payload, payload_len) with payload_len past the buffer reads
\* memory that is not the buffer's: the process ends or other bytes come back.
OutOfBoundsText == <<"<bytes past the buffer>">>

\* sasl_callback_t client_interact[]: the bindings of the two identifiers to
\* sasl_interact, with self as their context, and the end of the list.
client_interact ==
  << [id |-> SASL_CB_AUTHNAME, proc |-> "sasl_interact", context |-> "self"],
     [id |-> SASL_CB_USER, proc |-> "sasl_interact", context |-> "self"],
     [id |-> SASL_CB_LIST_END, proc |-> "NULL", context |-> "NULL"] >>

\* The address of an automatic variable: it names storage of the frame of
\* one call, the frame-th call made on the Authenticator.
AddressOf(object, frame) == [object |-> object, storage |-> "automatic", frame |-> frame]

\* Automatic storage exists while the call that declared it runs: pointer is
\* live during the running-th call only if that is the call of its frame.
LiveStorage(pointer, running) == pointer.frame = running

\* sasl_client_new(servicename, hostname, NULL, NULL, client_interact, 0, &conn):
\* the connection keeps the pointer to the callback table it was given.
\* origin tells how the call that created the connection went on.
sasl_client_new(origin, callbacks) == [origin |-> origin, callbacks |-> callbacks]

\* A resolver that answers SASL_CB_AUTHNAME only.
sasl_interact_authname_only(obj, id, len) ==
  IF id = SASL_CB_AUTHNAME
  THEN [result |-> SASL_OK, out |-> <<obj.user_name>>,
        len |-> IF len THEN <<Len(obj.user_name)>> ELSE <<>>, self |-> obj]
  ELSE [result |-> SASL_FAIL, out |-> <<>>, len |-> <<>>, self |-> obj]

\* sasl_interact(self, id, result, len).  len says whether the len pointer is
\* not NULL.  The answer holds the return value, what was stored through
\* result and len (nothing: <<>>), and the Authenticator after the call.
sasl_interact(obj, id, len) ==
  IF id \in {SASL_CB_AUTHNAME, SASL_CB_USER}
  THEN [result |-> SASL_OK, out |-> <<obj.user_name>>,
        len |-> IF len THEN <<Len(obj.user_name)>> ELSE <<>>, self |-> obj]
  ELSE [result |-> SASL_FAIL, out |-> <<>>, len |-> <<>>, self |-> obj]

\* A read of the wrapper's data pointer without the type check.
mongo_sasl_context_unchecked(obj, heap) ==
  IF obj.context = Qnil
  THEN [ok |-> TRUE, conn |-> 0]
  ELSE [ok |-> TRUE, conn |-> heap[obj.context].data]

\* mongo_sasl_context(self): the conn of the wrapper in @context, or the
\* TypeError of Data_Get_Struct when @context holds no T_DATA object.
mongo_sasl_context(obj, heap) ==
  IF obj.context = Qnil
  THEN [ok |-> FALSE, conn |-> 0]
  ELSE [ok |-> TRUE, conn |-> heap[obj.context].data]

\* A free function that disposes nothing.
mongo_sasl_conn_free_nothing(data, count) == count

\* mongo_sasl_conn_free(data): if (conn) sasl_dispose(&conn)
mongo_sasl_conn_free(data, count) ==
  IF data # 0 THEN [count EXCEPT ![data] = @ + 1] ELSE count

\* A wrapper that no store keeps from the collector.
Unreferenced(w) == FALSE

\* A wrapper is reachable while the Authenticator is and refers to it.
Reachable(w) == alive /\ self.context = w

\* conn is a connection of the library that sasl_dispose has not been given.
LiveConn(conn) == conn \in 1..Len(disposals) /\ disposals[conn] = 0

\* The end of a call.
Finish(op, payload, trace, outcome, self2, wrappers2, conns2, disposals2) ==
  /\ self' = self2
  /\ wrappers' = wrappers2
  /\ conns' = conns2
  /\ disposals' = disposals2
  /\ calls' = calls + 1
  /\ raised' = (raised \/ outcome.kind = "raise")
  /\ last' = [op |-> op, payload |-> payload, trace |-> trace, outcome |-> outcome]
  /\ UNCHANGED alive

(***************************************************************************)
(* initialize_challenge(self).  Every library call is answered when it is  *)
(* made; untrusted says whether the codec may misreport what it wrote.     *)
(***************************************************************************)
initialize_challenge(untrusted) ==
  /\ alive /\ ~Crashed /\ calls < MaxCalls
  /\ \E new \in ClientNewResults :
       LET cNew == LibCall("sasl_client_new", 0, new, "", <<>>, 0, 0, <<>>)
           conn == Len(conns) + 1
           callbacks == AddressOf(client_interact, calls + 1)
           context == Len(wrappers) + 1
           wrappers1 == Append(wrappers, Data_Wrap_Struct(conn))
           self1 == rb_iv_set_context(self, context)
           Raise(origin, trace, outcome) ==
             Finish("initialize_challenge", <<>>, trace, outcome, self1, wrappers1,
                    Append(conns, sasl_client_new(origin, callbacks)),
                    DisposeOnRaise(Append(disposals, 0), conn))
       IN IF ClientNewFailed(new)
          THEN Finish("initialize_challenge", <<>>, <<cNew>>,
                      raise_gssapi_error("sasl_client_new failed", new),
                      self, wrappers, conns, disposals)
          ELSE \E start \in ClientStartResults, k \in DOMAIN Mechanisms :
            LET mech == Mechanisms[k]
                cStart(token) ==
                  LibCall("sasl_client_start", conn, start, mech, mechanism_list,
                          0, Len(token), token)
            IN IF is_sasl_failure(start)
               THEN Raise("start_failed", <<cNew, cStart(<<>>)>>,
                          raise_gssapi_error("sasl_client_start failed", start))
               ELSE \E cmp \in StrcmpOutcomes(mech) :
                 IF cmp = "crash"
                 THEN Finish("initialize_challenge", <<>>, <<cNew, cStart(<<>>)>>, Crash,
                             self1, wrappers1,
                             Append(conns, sasl_client_new("crash", callbacks)),
                             Append(disposals, 0))
                 ELSE IF cmp = "differs"
                 THEN Raise("mismatch", <<cNew, cStart(<<>>)>>,
                            raise_unexpected_mechanism(mech))
                 ELSE IF NotContinue(start)
                 THEN Raise("not_continue", <<cNew, cStart(<<>>)>>,
                            raise_gssapi_error("sasl_client_start did not return SASL_CONTINUE", start))
                 ELSE \E token \in StartTokens :
                      \E enc \in EncodeAnswers(untrusted, token) :
                   LET cEnc == LibCall("sasl_encode64", 0, enc.result, "", token,
                                       EncodeLimit, enc.outlen, enc.out)
                       trace == <<cNew, cStart(token), cEnc>>
                   IN IF is_sasl_failure(enc.result)
                      THEN Raise("encode_failed", trace,
                                 raise_gssapi_error("sasl_encode64 failed to encode the payload", enc.result))
                      ELSE IF ClaimedTooMuch(enc.outlen)
                      THEN Raise("claimed_too_much", trace,
                                 raise_claimed_to_write(enc.outlen))
                      ELSE Finish("initialize_challenge", <<>>, trace,
                                  rb_str_new(enc.out), self1, wrappers1,
                                  Append(conns, sasl_client_new("token", callbacks)),
                                  Append(disposals, 0))

(***************************************************************************)
(* evaluate_challenge(self, rb_payload).                                   *)
(***************************************************************************)
evaluate_challenge(untrusted) ==
  /\ alive /\ ~Crashed /\ calls < MaxCalls
  /\ \E rb_payload \in InboundTexts :
       LET ctx == mongo_sasl_context(self, wrappers)
           conn == ctx.conn
           End(trace, outcome) ==
             Finish("evaluate_challenge", rb_payload, trace, outcome,
                    self, wrappers, conns, disposals)
           dec == Decoded[rb_payload]
           cDec == LibCall("sasl_decode64", 0, dec.result, "", rb_payload,
                           DecodeLimit, dec.outlen, dec.out)
       IN IF ~ctx.ok
          THEN End(<<>>, raise_type_error)
          ELSE IF is_sasl_failure(dec.result)
          THEN End(<<cDec>>,
                   raise_gssapi_error("sasl_decode64 failed to decode the payload", dec.result))
          ELSE IF ~LiveConn(conn)
          THEN End(<<cDec, LibCall("sasl_client_step", conn, SASL_FAIL, "", dec.out, 0, 0, <<>>)>>,
                   Crash)
          ELSE \E result \in ClientStepResults :
            LET cStep(out) ==
                  LibCall("sasl_client_step", conn, result, "", dec.out, 0, Len(out), out)
            IN IF is_sasl_failure(result)
               THEN End(<<cDec, cStep(<<>>)>>,
                        raise_gssapi_error("sasl_client_step failed", result))
               ELSE \E out \in StepTokens :
                    \E enc \in EncodeAnswers(untrusted, out) :
                 LET cEnc == LibCall("sasl_encode64", 0, enc.result, "", out,
                                     EncodeLimit, enc.outlen, enc.out)
                     trace == <<cDec, cStep(out), cEnc>>
                 IN IF is_sasl_failure(enc.result)
                    THEN End(trace,
                             raise_gssapi_error("sasl_encode64 failed to encode the payload", enc.result))
                    ELSE IF StepClaimedTooMuch(enc.outlen)
                    THEN End(trace, raise_claimed_to_write(enc.outlen))
                    ELSE IF enc.outlen >= BufferSize
                    THEN \E o \in {Crash, rb_str_new(OutOfBoundsText)} : End(trace, o)
                    ELSE End(trace, rb_str_new(enc.out))

(***************************************************************************)
(* The caller lets go of the Authenticator; the garbage collector frees a  *)
(* wrapper nothing refers to, once, calling its dfree function.            *)
(***************************************************************************)
Destroy ==
  /\ alive /\ ~Crashed
  /\ alive' = FALSE
  /\ UNCHANGED <<self, wrappers, conns, disposals, calls, raised, last>>

GC ==
  /\ ~Crashed
  /\ \E w \in 1..Len(wrappers) :
       /\ ~wrappers[w].freed
       /\ ~Reachable(w)
       /\ wrappers' = [wrappers EXCEPT ![w].freed = TRUE]
       /\ disposals' = mongo_sasl_conn_free(wrappers[w].data, disposals)
  /\ UNCHANGED <<self, conns, alive, calls, raised, last>>

Next ==
  \/ initialize_challenge(FALSE)
  \/ evaluate_challenge(FALSE)
  \/ Destroy
  \/ GC

Spec == Init /\ [][Next]_vars

\* The same program with a codec whose reported length cannot be trusted.
NextUntrusted ==
  \/ initialize_challenge(TRUE)
  \/ evaluate_challenge(TRUE)
  \/ Destroy
  \/ GC

SpecUntrusted == Init /\ [][NextUntrusted]_vars

(***************************************************************************)
(* The engine asks the Credential Resolver.  sasl_interact is the proc of  *)
(* the callback table; it is called with self as its context, an           *)
(* identifier, and a len pointer that may be NULL.                         *)
(***************************************************************************)
\* Identifiers the resolver may be called with: the two of the table, the
\* end of the list, SASL_CB_GETREALM (16387), SASL_CB_PASS (16388), and 1.
CallbackIds == {SASL_CB_AUTHNAME, SASL_CB_USER, SASL_CB_LIST_END, 16387, 16388, 1}

interact ==
  /\ alive /\ ~Crashed /\ calls < MaxCalls
  /\ \E id \in CallbackIds, len \in BOOLEAN :
       LET answer == sasl_interact(self, id, len)
       IN /\ self' = answer.self
          /\ calls' = calls + 1
          /\ last' = [op |-> "sasl_interact", payload |-> <<id, len>>, trace |-> <<>>,
                      outcome |-> [kind |-> "return", result |-> answer.result,
                                   out |-> answer.out, len |-> answer.len]]
          /\ UNCHANGED <<wrappers, conns, disposals, alive, raised>>

NextResolver ==
  \/ initialize_challenge(FALSE)
  \/ interact

SpecResolver == InitResolver /\ [][NextResolver]_vars

\* The life of the connections: evaluate_challenge creates, stores and
\* disposes nothing, so it is left out; the collector frees every
\* unreachable wrapper in the end (at the latest when the interpreter exits).
NextLifecycle ==
  \/ initialize_challenge(FALSE)
  \/ Destroy
  \/ GC

SpecLifecycle == Init /\ [][NextLifecycle]_vars /\ WF_vars(GC)

(***************************************************************************)
(* Properties.                                                             *)
(***************************************************************************)
StartCalls == CallsOf("sasl_client_start")
StepCalls == CallsOf("sasl_client_step")

\* C1 (as claimed): at most one Context is ever created for an
\* Authenticator; a second initialize_challenge creates no second one.
C1_AtMostOneContext == Len(conns) <= 1

\* C2: evaluate_challenge on an Authenticator whose @context was never set
\* (initialize_challenge never called) raises the state error, returns no
\* text, and calls neither sasl_decode64 nor sasl_client_step.
C2_StepWithoutContext ==
  (last.op = "evaluate_challenge" /\ self.context = Qnil) =>
    /\ ProtocolStateError(last.outcome)
    /\ last.outcome.text = <<>>
    /\ CallsOf("sasl_decode64") = <<>>
    /\ StepCalls = <<>>

\* evaluate_challenge was the first call ever made, and it raised.
C2_Witness ==
  /\ calls = 1
  /\ last.op = "evaluate_challenge"
  /\ last.outcome.kind = "raise"

\* C3 (as claimed): once a call has raised, every later call on the
\* Authenticator raises the state error.
C3_FailedNeverUsable ==
  [][(raised /\ calls' = calls + 1) => ProtocolStateError(last'.outcome)]_vars

\* C4 (as claimed): whenever sasl_client_start selects a mechanism other than
\* exactly "GSSAPI" (another name, the empty name, NULL), whatever its result
\* code, initialize_challenge raises the mechanism error carrying that name
\* and returns no text.
C4_MismatchWhateverResult ==
  (last.op = "initialize_challenge" /\ StartCalls # <<>>
     /\ StartCalls[1].mech # "GSSAPI") =>
    /\ MechanismMismatchError(last.outcome)
    /\ last.outcome.mech = StartCalls[1].mech
    /\ last.outcome.text = <<>>

\* C4 (amended): whenever sasl_client_start returns a non-negative result
\* code and selects a name (not NULL) other than exactly "GSSAPI",
\* initialize_challenge raises the mechanism error carrying that name and
\* returns no text.
C4_MismatchOnNonNegativeResult ==
  (last.op = "initialize_challenge" /\ StartCalls # <<>>
     /\ StartCalls[1].result >= 0
     /\ StartCalls[1].mech \notin {"GSSAPI", NullMech}) =>
    /\ MechanismMismatchError(last.outcome)
    /\ last.outcome.mech = StartCalls[1].mech
    /\ last.outcome.text = <<>>

\* sasl_client_start answered SASL_CONTINUE with the empty name selected.
C4_Witness ==
  /\ last.op = "initialize_challenge"
  /\ StartCalls # <<>>
  /\ StartCalls[1].result = SASL_CONTINUE
  /\ StartCalls[1].mech = ""
  /\ last.outcome.kind = "raise"

\* C5 (as claimed): a Context created by an initialize_challenge that failed
\* on the selected mechanism is never given to sasl_client_step.
C5_MismatchedContextNeverStepped ==
  \A i \in 1..Len(last.trace) :
    last.trace[i].fn = "sasl_client_step" =>
      conns[last.trace[i].conn].origin # "mismatch"

\* C6: no connection is given to sasl_dispose more than once, and only by
\* the free function of a wrapper that nothing refers to any more; with no
\* connection created, nothing is disposed.
C6_DisposedAtMostOnce ==
  /\ Len(disposals) = Len(conns)
  /\ \A c \in 1..Len(disposals) :
       /\ disposals[c] <= 1
       /\ disposals[c] = 1 =>
            \E w \in 1..Len(wrappers) :
              wrappers[w].data = c /\ wrappers[w].freed /\ ~Reachable(w)

\* The Authenticator is gone, a call on it had raised, and each of its two
\* connections has been disposed once.
C6_Witness ==
  /\ ~alive
  /\ raised
  /\ Len(disposals) = 2
  /\ \A c \in 1..Len(disposals) : disposals[c] = 1

\* C7 (as claimed): initialize_challenge returns text only when
\* sasl_client_start selected GSSAPI and answered SASL_CONTINUE; any other
\* result code raises the negotiation error with that code and diagnostic.
C7_OnlyContinueReturns ==
  (last.op = "initialize_challenge" /\ StartCalls # <<>>) =>
    /\ last.outcome.kind = "return" =>
         StartCalls[1].mech = "GSSAPI" /\ StartCalls[1].result = SASL_CONTINUE
    /\ StartCalls[1].result # SASL_CONTINUE =>
         /\ NegotiationError(last.outcome)
         /\ last.outcome.code = <<StartCalls[1].result>>
         /\ last.outcome.errstring = sasl_errstring(StartCalls[1].result)

\* C7 (amended): initialize_challenge returns text only when
\* sasl_client_start answered SASL_CONTINUE and the name it selected, if not
\* NULL, is GSSAPI; a negative result code, and any other result code than
\* SASL_CONTINUE with GSSAPI selected, raises the negotiation error with that
\* code and diagnostic.
C7_OnlyContinueReturnsForGssapi ==
  (last.op = "initialize_challenge" /\ StartCalls # <<>>) =>
    /\ last.outcome.kind = "return" =>
         /\ StartCalls[1].result = SASL_CONTINUE
         /\ StartCalls[1].mech \in {"GSSAPI", NullMech}
    /\ ( /\ StartCalls[1].result # SASL_CONTINUE
         /\ (StartCalls[1].result < 0 \/ StartCalls[1].mech = "GSSAPI") ) =>
         /\ NegotiationError(last.outcome)
         /\ last.outcome.code = <<StartCalls[1].result>>
         /\ last.outcome.errstring = sasl_errstring(StartCalls[1].result)

\* sasl_client_start answered SASL_OK with GSSAPI selected, and the call raised.
C7_Witness ==
  /\ last.op = "initialize_challenge"
  /\ StartCalls # <<>>
  /\ StartCalls[1].result = SASL_OK
  /\ StartCalls[1].mech = "GSSAPI"
  /\ last.outcome.kind = "raise"

\* C8: when sasl_client_new answers anything but SASL_OK,
\* initialize_challenge raises the negotiation error with that code, stores
\* no Context (@context, the wrappers and the connections are as before),
\* and does not call sasl_client_start.
C8_CreateFailureStoresNothing ==
  [][( /\ calls' = calls + 1
       /\ last'.op = "initialize_challenge"
       /\ last'.trace[1].result # SASL_OK ) =>
     ( /\ NegotiationError(last'.outcome)
       /\ last'.outcome.code = <<last'.trace[1].result>>
       /\ self' = self
       /\ wrappers' = wrappers
       /\ conns' = conns
       /\ TraceCalls(last'.trace, "sasl_client_start") = <<>> )]_vars

\* sasl_client_new answered SASL_NOMEM and the Authenticator holds no Context.
C8_Witness ==
  /\ last.op = "initialize_challenge"
  /\ last.trace[1].result = SASL_NOMEM
  /\ last.outcome.kind = "raise"
  /\ self.context = Qnil

\* C9 (as claimed): evaluate_challenge with a Context and a decodable text
\* gives sasl_client_step the Authenticator's Context; a negative result
\* raises the negotiation error with the code and diagnostic, and every
\* non-negative result returns the base64 text of the outbound token.
C9_StepReturnsEveryToken ==
  (last.op = "evaluate_challenge" /\ StepCalls # <<>>) =>
    /\ StepCalls[1].conn = wrappers[self.context].data
    /\ StepCalls[1].result < 0 =>
         /\ NegotiationError(last.outcome)
         /\ last.outcome.code = <<StepCalls[1].result>>
         /\ last.outcome.errstring = sasl_errstring(StepCalls[1].result)
    /\ StepCalls[1].result >= 0 =>
         /\ last.outcome.kind = "return"
         /\ last.outcome.text = Base64Text(StepCalls[1].out)

\* C9 (amended): as claimed, except that a non-negative result returns the
\* base64 text of the outbound token only when that text fits the buffer
\* (a token of at most LongestFit bytes); for a longer token the call raises
\* the encoding error.
C9_StepReturnsEveryFittingToken ==
  (last.op = "evaluate_challenge" /\ StepCalls # <<>>) =>
    /\ StepCalls[1].conn = wrappers[self.context].data
    /\ StepCalls[1].result < 0 =>
         /\ NegotiationError(last.outcome)
         /\ last.outcome.code = <<StepCalls[1].result>>
         /\ last.outcome.errstring = sasl_errstring(StepCalls[1].result)
    /\ (StepCalls[1].result >= 0 /\ Len(StepCalls[1].out) <= LongestFit) =>
         /\ last.outcome.kind = "return"
         /\ last.outcome.text = Base64Text(StepCalls[1].out)
    /\ (StepCalls[1].result >= 0 /\ Len(StepCalls[1].out) > LongestFit) =>
         EncodingOverflowError(last.outcome)

\* One initialize_challenge and two evaluate_challenge calls, none raising,
\* the last returning "AwQ=" for the token 03 04.
C9_Witness ==
  /\ calls = 3
  /\ ~raised
  /\ Len(conns) = 1
  /\ last.op = "evaluate_challenge"
  /\ StepCalls # <<>>
  /\ StepCalls[1].out = <<3, 4>>
  /\ last.outcome.text = <<"A", "w", "Q", "=">>

\* C10 (as claimed): every sasl_encode64 call is given the buffer size minus
\* one, and whenever the codec reports a written length of the buffer size
\* or more the operation raises the encoding error.
C10_EncodeRevalidated ==
  \A i \in 1..Len(last.trace) :
    last.trace[i].fn = "sasl_encode64" =>
      /\ last.trace[i].outmax = BufferSize - 1
      /\ last.trace[i].outlen >= BufferSize =>
           EncodingOverflowError(last.outcome)

EncodeCalls == CallsOf("sasl_encode64")
DecodeCalls == CallsOf("sasl_decode64")

\* The text of bytes, with its terminator, does not fit a buffer of BufferSize.
TextDoesNotFit(bytes) == ((Len(bytes) + 2) \div 3) * 4 + 1 > BufferSize

\* The call that ended in the primed state returned the text of a token of at
\* most limit bytes, if it encoded one; and if it is an evaluate_challenge
\* given the text the call before it returned, its sasl_decode64 answered
\* SASL_OK with the bytes that call had encoded.
RoundTripStep(limit) ==
  calls' = calls + 1 =>
    /\ \A i \in DOMAIN last'.trace :
         ( /\ last'.trace[i].fn = "sasl_encode64"
           /\ Len(last'.trace[i].given) <= limit ) =>
           /\ last'.trace[i].result = SASL_OK
           /\ last'.outcome.kind = "return"
           /\ last'.outcome.text = last'.trace[i].out
    /\ ( /\ last.outcome.kind = "return"
         /\ last.op \in {"initialize_challenge", "evaluate_challenge"}
         /\ last'.op = "evaluate_challenge"
         /\ last'.payload = last.outcome.text ) =>
         /\ TraceCalls(last'.trace, "sasl_decode64") # <<>>
         /\ TraceCalls(last'.trace, "sasl_decode64")[1].result = SASL_OK
         /\ TraceCalls(last'.trace, "sasl_decode64")[1].out =
              TraceCalls(last.trace, "sasl_encode64")[1].given

\* C11 (as claimed): every token of at most 3072 bytes (a quarter of the
\* buffer size, times three) is encoded with success, and decoding the
\* returned text gives the token back.
C11_RoundTripUpTo3072 == [][RoundTripStep((BufferSize \div 4) * 3)]_vars

\* C11 (amended): every token of at most LongestFit (3069) bytes is encoded
\* with success, and decoding the returned text gives the token back; a
\* longer token (3070 bytes and up) is not encoded: the call raises the
\* encoding error.
C11_RoundTripUpToLongestFit ==
  [][ /\ RoundTripStep(LongestFit)
      /\ calls' = calls + 1 =>
           \A i \in DOMAIN last'.trace :
             ( /\ last'.trace[i].fn = "sasl_encode64"
               /\ Len(last'.trace[i].given) > LongestFit ) =>
               EncodingOverflowError(last'.outcome) ]_vars

\* evaluate_challenge was given the longest text initialize_challenge
\* returns, and sasl_client_step the LongestFit bytes it stands for.
C11_Witness ==
  /\ last.op = "evaluate_challenge"
  /\ last.payload = LongestText
  /\ StepCalls # <<>>
  /\ StepCalls[1].given = Fill(LongestFit, 0)
  /\ Len(conns) = 1
  /\ conns[1].origin = "token"

\* The number of bytes a well-formed base64 text stands for.
DecodedLen(text) ==
  IF Len(text) = 0 THEN 0
  ELSE 3 * (Len(text) \div 4)
       - (IF text[Len(text)] = "=" THEN 1 ELSE 0)
       - (IF Len(text) > 1 /\ text[Len(text) - 1] = "=" THEN 1 ELSE 0)

\* C12: when the base64 text of the outbound token does not fit the buffer,
\* initialize_challenge and evaluate_challenge raise the encoding error and
\* return no text; when the bytes an inbound text stands for do not fit the
\* decode buffer, evaluate_challenge raises and sasl_client_step is not called.
C12_OverflowRejected ==
  /\ \A i \in DOMAIN last.trace :
       (last.trace[i].fn = "sasl_encode64" /\ TextDoesNotFit(last.trace[i].given)) =>
         /\ EncodingOverflowError(last.outcome)
         /\ last.outcome.text = <<>>
  /\ (last.op = "evaluate_challenge" /\ DecodedLen(last.payload) >= BufferSize) =>
       /\ last.outcome.kind = "raise"
       /\ last.outcome.text = <<>>
       /\ StepCalls = <<>>

\* sasl_client_step produced a token of more than LongestFit bytes and
\* evaluate_challenge raised.
C12_Witness ==
  /\ last.op = "evaluate_challenge"
  /\ StepCalls # <<>>
  /\ Len(StepCalls[1].out) = LongestFit + 1
  /\ EncodeCalls # <<>>
  /\ EncodeCalls[1].result = SASL_BUFOVER
  /\ last.outcome.kind = "raise"

\* C13: when sasl_decode64 answers a failure code in evaluate_challenge, the
\* call raises the negotiation error with that code, sasl_client_step is not
\* called, and @context, the wrappers and the connections are as before.
C13_DecodeFailure ==
  [][( /\ calls' = calls + 1
       /\ last'.op = "evaluate_challenge"
       /\ TraceCalls(last'.trace, "sasl_decode64") # <<>>
       /\ TraceCalls(last'.trace, "sasl_decode64")[1].result < 0 ) =>
     ( /\ NegotiationError(last'.outcome)
       /\ last'.outcome.code = <<TraceCalls(last'.trace, "sasl_decode64")[1].result>>
       /\ TraceCalls(last'.trace, "sasl_client_step") = <<>>
       /\ self' = self
       /\ wrappers' = wrappers
       /\ conns' = conns
       /\ disposals' = disposals )]_vars

\* evaluate_challenge on an Authenticator with a Context was given a text
\* outside the alphabet, for which sasl_decode64 answered SASL_BADPROT.
C13_Witness ==
  /\ last.op = "evaluate_challenge"
  /\ self.context # Qnil
  /\ DecodeCalls # <<>>
  /\ DecodeCalls[1].result = SASL_BADPROT
  /\ last.outcome.kind = "raise"

\* C14: sasl_interact called with SASL_CB_AUTHNAME or SASL_CB_USER returns
\* SASL_OK and stores @user_name and (through a len pointer that is not
\* NULL) its length; with any other identifier it returns SASL_FAIL and
\* stores nothing; it never changes a field of the Authenticator.
C14_ResolverFrame ==
  [][( /\ calls' = calls + 1
       /\ last'.op = "sasl_interact" ) =>
     ( /\ self' = self
       /\ IF last'.payload[1] \in {SASL_CB_AUTHNAME, SASL_CB_USER}
          THEN /\ last'.outcome.result = SASL_OK
               /\ last'.outcome.out = <<self.user_name>>
               /\ last'.payload[2] => last'.outcome.len = <<Len(self.user_name)>>
          ELSE /\ last'.outcome.result = SASL_FAIL
               /\ last'.outcome.out = <<>>
               /\ last'.outcome.len = <<>> )]_vars

\* sasl_interact answered SASL_CB_USER with "alice" and 5 on an
\* Authenticator that holds a Context.
C14_Witness ==
  /\ last.op = "sasl_interact"
  /\ last.payload = <<SASL_CB_USER, TRUE>>
  /\ last.outcome.out = <<"alice">>
  /\ last.outcome.len = <<5>>
  /\ self.context # Qnil

\* C15 (as claimed): when evaluate_challenge returns, the bytes given to
\* sasl_client_step are the bytes whose base64 text is the inbound text, and
\* the text returned is the base64 text of the token sasl_client_step
\* produced; when initialize_challenge returns, the text returned is the
\* base64 text of the first token, as long as the codec's written count.
C15_ExactTranscoding ==
  /\ (last.op = "evaluate_challenge" /\ last.outcome.kind = "return") =>
       /\ Base64Text(StepCalls[1].given) = last.payload
       /\ last.outcome.text = Base64Text(StepCalls[1].out)
  /\ (last.op = "initialize_challenge" /\ last.outcome.kind = "return") =>
       /\ last.outcome.text = Base64Text(StartCalls[1].out)
       /\ Len(last.outcome.text) = EncodeCalls[1].outlen

\* C16: once the Authenticator is destroyed, every connection
\* sasl_client_new created is given to sasl_dispose in the end, whichever
\* way the initialize_challenge that created it ended.
C16_EveryContextDisposed ==
  ~alive ~> (\A c \in 1..Len(conns) : disposals[c] = 1)

\* The Authenticator is gone and the connection of an initialize_challenge
\* that raised on the selected mechanism has been disposed.
C16_Witness ==
  /\ ~alive
  /\ Len(conns) = 1
  /\ conns[1].origin = "mismatch"
  /\ disposals[1] = 1

\* C17: every sasl_client_step call is given the connection of the wrapper
\* @context refers to, and sasl_dispose has not been called on it; a wrapper
\* is freed only when the Authenticator does not refer to it.
C17_StepOnLiveContext ==
  [][ /\ calls' = calls + 1 =>
           \A i \in DOMAIN last'.trace :
             last'.trace[i].fn = "sasl_client_step" =>
               /\ self.context # Qnil
               /\ last'.trace[i].conn = wrappers[self.context].data
               /\ last'.trace[i].conn \in 1..Len(disposals)
               /\ disposals[last'.trace[i].conn] = 0
      /\ \A w \in 1..Len(wrappers') :
           wrappers'[w].freed => ~(alive' /\ self'.context = w) ]_vars

\* The first of two connections has been disposed, and evaluate_challenge
\* gave the second one to sasl_client_step.
C17_Witness ==
  /\ alive
  /\ Len(conns) = 2
  /\ disposals[1] = 1
  /\ last.op = "evaluate_challenge"
  /\ StepCalls # <<>>
  /\ StepCalls[1].conn = 2
  /\ last.outcome.kind = "return"

\* C18 (as claimed): whenever the engine is given a connection
\* (sasl_client_start, sasl_client_step), the callback table the connection
\* points to is live storage.
C18_CallbackTableLive ==
  \A i \in DOMAIN last.trace :
    last.trace[i].fn \in {"sasl_client_start", "sasl_client_step"} =>
      LiveStorage(conns[last.trace[i].conn].callbacks, calls)

\* C19: initialize_challenge classifies the answer of sasl_client_start in
\* this order: a negative result raises the start failure whatever name was
\* selected (a NULL name too: it is not read); else a name other than GSSAPI
\* raises the mechanism error, for SASL_OK too; else a result other than
\* SASL_CONTINUE raises the result-code error.
C19_ClassificationOrder ==
  (last.op = "initialize_challenge" /\ StartCalls # <<>>) =>
    /\ StartCalls[1].result < 0 =>
         /\ last.outcome.kind = "raise"
         /\ last.outcome.msg = "sasl_client_start failed"
         /\ last.outcome.code = <<StartCalls[1].result>>
    /\ (StartCalls[1].result >= 0 /\ StartCalls[1].mech \notin {"GSSAPI", NullMech}) =>
         /\ MechanismMismatchError(last.outcome)
         /\ last.outcome.mech = StartCalls[1].mech
    /\ ( /\ StartCalls[1].result >= 0
         /\ StartCalls[1].mech = "GSSAPI"
         /\ StartCalls[1].result # SASL_CONTINUE ) =>
         /\ last.outcome.kind = "raise"
         /\ last.outcome.msg = "sasl_client_start did not return SASL_CONTINUE"
         /\ last.outcome.code = <<StartCalls[1].result>>
    /\ (StartCalls[1].mech = "GSSAPI" /\ StartCalls[1].result = SASL_CONTINUE) =>
         /\ EncodeCalls # <<>>
         /\ ~NegotiationError(last.outcome)
         /\ ~MechanismMismatchError(last.outcome)

\* sasl_client_start answered SASL_OK with PLAIN selected, and the call
\* raised the mechanism error.
C19_Witness ==
  /\ last.op = "initialize_challenge"
  /\ StartCalls # <<>>
  /\ StartCalls[1].result = SASL_OK
  /\ StartCalls[1].mech = "PLAIN"
  /\ MechanismMismatchError(last.outcome)

====
